---- MODULE Spec2Model ----
(***************************************************************************)
(* Model of convert/scripts/convert-tables.py.                             *)
(*                                                                         *)
(* Text is a sequence of one-character strings and every index is a        *)
(* 0-based Python index, so that str.find's -1, the slices built from it   *)
(* and the regular-expression substitutions behave as they do in CPython.  *)
(* Floats are modelled as exact rationals <<numerator, denominator>>.      *)
(***************************************************************************)
EXTENDS Integers, Sequences, FiniteSets, TLC

(***************************************************************************)
(* Marker strings of the source, character by character.                   *)
(***************************************************************************)
beginLongtable == <<"\\", "b", "e", "g", "i", "n", "{", "l", "o", "n", "g", "t", "a", "b", "l", "e", "}">>
endLongtable == <<"\\", "e", "n", "d", "{", "l", "o", "n", "g", "t", "a", "b", "l", "e", "}">>
endhead == <<"\\", "e", "n", "d", "h", "e", "a", "d">>
endfirsthead == <<"\\", "e", "n", "d", "f", "i", "r", "s", "t", "h", "e", "a", "d">>
bottomrule == <<"\\", "b", "o", "t", "t", "o", "m", "r", "u", "l", "e">>
tabularnewline == <<"\\", "t", "a", "b", "u", "l", "a", "r", "n", "e", "w", "l", "i", "n", "e">>
addlinespace == <<"\\", "a", "d", "d", "l", "i", "n", "e", "s", "p", "a", "c", "e">>
beginMinipage == <<"\\", "b", "e", "g", "i", "n", "{", "m", "i", "n", "i", "p", "a", "g", "e", "}">>
endMinipage == <<"\\", "e", "n", "d", "{", "m", "i", "n", "i", "p", "a", "g", "e", "}">>
endItemize == <<"\\", "e", "n", "d", "{", "i", "t", "e", "m", "i", "z", "e", "}">>
strut == <<"\\", "s", "t", "r", "u", "t">>
real == <<"\\", "r", "e", "a", "l", "{">>

(***************************************************************************)
(* Python string primitives.                                               *)
(***************************************************************************)
Max(S) == CHOOSE x \in S : \A y \in S : y <= x
Min(S) == CHOOSE x \in S : \A y \in S : x <= y
MinOr(S, none) == IF S = {} THEN none ELSE Min(S)
MaxOr(S, none) == IF S = {} THEN none ELSE Max(S)

\* s[i] with a 0-based index
At(s, i) == s[i + 1]

\* s.startswith(pat, i)
MatchAt(s, i, pat) ==
    /\ i >= 0
    /\ i + Len(pat) <= Len(s)
    /\ \A k \in 1..Len(pat) : s[i + k] = pat[k]

\* index of the first occurrence of pat at or after from, -1 when there is none
FindFrom(s, pat, from) ==
    MinOr({i \in from..(Len(s) - Len(pat)) : MatchAt(s, i, pat)}, -1)

\* str.find
Find(s, pat) == FindFrom(s, pat, 0)

\* a slice bound as CPython normalises it
ClampIndex(i, n) ==
    IF i < -n THEN 0 ELSE IF i < 0 THEN i + n ELSE IF i > n THEN n ELSE i

\* s[a:b]
SliceClamped(s, lo, hi) == IF lo >= hi THEN <<>> ELSE SubSeq(s, lo + 1, hi)
Slice(s, a, b) == SliceClamped(s, ClampIndex(a, Len(s)), ClampIndex(b, Len(s)))

\* s[a:]
SliceFrom(s, a) == SubSeq(s, ClampIndex(a, Len(s)) + 1, Len(s))

\* re: \s
IsSpace(c) == c \in {" ", "\n", "\t"}

\* end of the line that holds position i: the next newline, or the end of s
\* (re: "." without DOTALL matches everything but a newline)
LineEnd(s, i) == MinOr({j \in i..(Len(s) - 1) : At(s, j) = "\n"}, Len(s))

\* re.sub of a literal pattern by a literal replacement, from position i on;
\* m is the next match
RECURSIVE SubLiteralAt(_, _, _, _, _)
SubLiteralAt(s, pat, repl, i, m) ==
    IF m < 0 THEN SliceFrom(s, i)
    ELSE Slice(s, i, m) \o repl
             \o SubLiteralAt(s, pat, repl, m + Len(pat),
                             FindFrom(s, pat, m + Len(pat)))

SubLiteral(s, pat, repl) == SubLiteralAt(s, pat, repl, 0, Find(s, pat))

(***************************************************************************)
(* Rational arithmetic standing for Python's float arithmetic.             *)
(***************************************************************************)
RECURSIVE GCD(_, _)
GCD(a, b) == IF b = 0 THEN a ELSE GCD(b, a % b)

Abs(x) == IF x < 0 THEN -x ELSE x

\* n/d in lowest terms with a positive denominator, d # 0
Reduce(n, d, g) == IF d < 0 THEN <<(-n) \div g, (-d) \div g>> ELSE <<n \div g, d \div g>>
Rat(n, d) == Reduce(n, d, GCD(Abs(n), Abs(d)))

RAdd(a, b) == Rat(a[1] * b[2] + b[1] * a[2], a[2] * b[2])
RSub(a, b) == Rat(a[1] * b[2] - b[1] * a[2], a[2] * b[2])
RMul(a, b) == Rat(a[1] * b[1], a[2] * b[2])
\* defined for b # 0 only: Python raises ZeroDivisionError otherwise
RDiv(a, b) == Rat(a[1] * b[2], a[2] * b[1])
RZero == <<0, 1>>
ROne == <<1, 1>>

\* sum(...)
RECURSIVE RSum(_)
RSum(ws) == IF ws = <<>> THEN RZero ELSE RAdd(ws[1], RSum(Tail(ws)))

(***************************************************************************)
(* Results.  A function that raises returns a record whose err names the   *)
(* exception; err = "" is a normal return.                                 *)
(***************************************************************************)
TextOk(t) == [err |-> "", text |-> t]
TextErr(e) == [err |-> e, text |-> <<>>]
SizesOk(ws, fs) == [err |-> "", widths |-> ws, formats |-> fs]
SizesErr(e) == [err |-> e, widths |-> <<>>, formats |-> <<>>]

(***************************************************************************)
(* getStretchRegexes: one (pattern, replacement) pair; the replacement     *)
(* template "\\tabularnewline\\addlinespace[{0}]" expands to the marker    *)
(* followed by \addlinespace[spacing].                                     *)
(***************************************************************************)
getStretchRegexes(spacing) ==
    <<[reg |-> tabularnewline,
       repl |-> tabularnewline \o addlinespace \o <<"[">> \o spacing \o <<"]">>]>>

\* for reg, repl in regs: substring = reg.sub(repl, substring)
RECURSIVE ApplyRegexes(_, _)
ApplyRegexes(regs, substring) ==
    IF regs = <<>> THEN substring
    ELSE ApplyRegexes(Tail(regs), SubLiteral(substring, regs[1].reg, regs[1].repl))

\* output[0:start] + substring + output[end:]
SpacingBetween(output, spacing, start, end) ==
    Slice(output, 0, start)
        \o ApplyRegexes(getStretchRegexes(spacing), Slice(output, start, end))
        \o SliceFrom(output, end)

setLatexSpacing(output, spacing) ==
    SpacingBetween(output, spacing,
                   Find(output, endhead) + Len(endhead), Find(output, bottomrule))

(***************************************************************************)
(* The column regex r of getColumnSizes: ">{", group 1 (any characters),   *)
(* "}", any characters, "p{", any characters, "\real{", group 2 (a decimal *)
(* number), "}}".                                                          *)
(***************************************************************************)
Digits == <<"0", "1", "2", "3", "4", "5", "6", "7", "8", "9">>
IsDigit(c) == \E k \in 1..Len(Digits) : Digits[k] = c
DigitValue(c) == (CHOOSE k \in 1..Len(Digits) : Digits[k] = c) - 1

\* first position at or after p that holds no digit
DigitsEnd(s, p) == MinOr({j \in p..(Len(s) - 1) : ~IsDigit(At(s, j))}, Len(s))

\* end of a match of the decimal number (digits, then optionally a dot and
\* digits) at p, -1 when there is none; d1 ends the digits at p, d2 the digits
\* after the dot
FractionEnd(d1, d2) == IF d2 > d1 + 1 THEN d2 ELSE d1
NumberEndAfter(s, p, d1) ==
    IF d1 = p THEN -1
    ELSE IF d1 < Len(s) /\ At(s, d1) = "." THEN FractionEnd(d1, DigitsEnd(s, d1 + 1))
    ELSE d1
NumberEnd(s, p) == IF p >= Len(s) THEN -1 ELSE NumberEndAfter(s, p, DigitsEnd(s, p))

\* end of a match of "\real{", number, "}}" at r, -1 when there is none; e
\* ends the number
RealEndAfter(s, e) == IF e >= 0 /\ MatchAt(s, e, <<"}", "}">>) THEN e + 2 ELSE -1
RealEnd(s, r) ==
    IF ~MatchAt(s, r, real) THEN -1 ELSE RealEndAfter(s, NumberEnd(s, r + Len(real)))

\* The match of the column regex that starts at i, as the backtracking engine
\* finds it: every "any characters" is greedy and stays on the line of i, so
\* the match ends with the last "\real{number}}" of the line (at rmax), "p{" is
\* the last one before it, and group 1 ends at the last "}" (at j) that has a
\* "p{" between it and rmax.
NoMatch == [ok |-> FALSE, start |-> -1, group1 |-> <<>>, group2 |-> <<>>, end |-> -1]
ColumnMatchGroups(s, i, j, rmax, e) ==
    [ok |-> TRUE, start |-> i, group1 |-> Slice(s, i + 2, j),
     group2 |-> Slice(s, rmax + Len(real), e - 2), end |-> e]
ColumnMatchGroup1(s, i, rmax, j) ==
    IF j < 0 THEN NoMatch ELSE ColumnMatchGroups(s, i, j, rmax, RealEnd(s, rmax))
ColumnMatchLast(s, i, rmax) ==
    IF rmax < 0 THEN NoMatch
    ELSE ColumnMatchGroup1(s, i, rmax,
             MaxOr({j \in (i + 2)..(rmax - 3) :
                      /\ At(s, j) = "}"
                      /\ \E k \in (j + 1)..(rmax - 2) : MatchAt(s, k, <<"p", "{">>)},
                   -1))
ColumnMatchOnLine(s, i, le) ==
    ColumnMatchLast(s, i, MaxOr({r \in (i + 5)..(le - 1) : RealEnd(s, r) >= 0}, -1))
ColumnMatch(s, i) ==
    IF ~MatchAt(s, i, <<">", "{">>) THEN NoMatch
    ELSE ColumnMatchOnLine(s, i, LineEnd(s, i))

\* the leftmost of the matches ms
FirstMatch(ms) == CHOOSE m \in ms : \A m2 \in ms : m.start <= m2.start

\* r.finditer(part): the non-overlapping matches from left to right
RECURSIVE FindIter(_, _)
FindIterNext(part, m) == <<m>> \o FindIter(part, m.end)
FindIterAmong(part, ms) ==
    IF ms = {} THEN <<>> ELSE FindIterNext(part, FirstMatch(ms))
FindIter(part, pos) ==
    FindIterAmong(part,
        {m \in {ColumnMatch(part, i) : i \in pos..(Len(part) - 2)} : m.ok})

RECURSIVE Pow10(_)
Pow10(n) == IF n = 0 THEN 1 ELSE 10 * Pow10(n - 1)

RECURSIVE DigitsValue(_)
DigitsValue(ds) ==
    IF ds = <<>> THEN 0
    ELSE 10 * DigitsValue(SubSeq(ds, 1, Len(ds) - 1)) + DigitValue(ds[Len(ds)])

\* float(m.group(2)) of a decimal literal; dot is the index of its "."
FloatAt(num, dot) ==
    IF dot < 0 THEN Rat(DigitsValue(num), 1)
    ELSE Rat(DigitsValue(Slice(num, 0, dot) \o SliceFrom(num, dot + 1)),
             Pow10(Len(num) - dot - 1))
Float(num) == FloatAt(num, Find(num, <<".">>))

RECURSIVE IntSum(_)
IntSum(cs) == IF cs = <<>> THEN 0 ELSE cs[1] + IntSum(Tail(cs))

\* widths = [c / float(totalWidth) for c in columnRatios], totalWidth # 0
RatioWidthsBy(columnRatios, totalWidth) ==
    [k \in 1..Len(columnRatios) |-> RDiv(<<columnRatios[k], 1>>, <<totalWidth, 1>>)]
RatioWidths(columnRatios) == RatioWidthsBy(columnRatios, IntSum(columnRatios))

\* widths = [w * scale for w in widths]
TimesScale(widths, scale) == [k \in 1..Len(widths) |-> RMul(widths[k], scale)]

\* a scaling that leaves the margin out: scale = 1.0 / totalWidth
ScaleWidthsNoMargin(widths, scaleToFullMargin) ==
    TimesScale(widths, RDiv(ROne, RSum(widths)))

\* scale = (1.0 - scaleToFullMargin) / totalWidth, totalWidth # 0
ScaleWidths(widths, scaleToFullMargin) ==
    TimesScale(widths, RDiv(RSub(ROne, scaleToFullMargin), RSum(widths)))

\* getColumnSizes from "if scaleToOne or columnRatios:" on; scaleOrRatios is
\* that condition
ScaledSizes(widths, formats, scaleOrRatios, scaleToFullMargin) ==
    IF ~scaleOrRatios THEN SizesOk(widths, formats)
    ELSE IF RSum(widths) = RZero THEN SizesErr("ZeroDivisionError")
    ELSE SizesOk(ScaleWidths(widths, scaleToFullMargin), formats)

\* the widths and the formats of the matches ms
MatchWidths(ms) == [k \in 1..Len(ms) |-> Float(ms[k].group2)]
MatchFormats(ms) == [k \in 1..Len(ms) |-> ms[k].group1]

\* a getColumnSizes without its "if len(widths) == 0: raise"
ColumnSizesOfNoRaise(ms, scaleToOne, scaleToFullMargin, columnRatios) ==
    IF Len(ms) = 0 THEN SizesOk(<<>>, <<>>)
    ELSE IF columnRatios = <<>>
    THEN ScaledSizes(MatchWidths(ms), MatchFormats(ms), scaleToOne, scaleToFullMargin)
    ELSE IF Len(columnRatios) # Len(ms) THEN SizesErr("AssertionError")
    ELSE IF IntSum(columnRatios) = 0 THEN SizesErr("ZeroDivisionError")
    ELSE ScaledSizes(RatioWidths(columnRatios), MatchFormats(ms), TRUE,
                     scaleToFullMargin)

\* getColumnSizes from "if len(widths) == 0:" on; ms are the matches of the
\* column regex.  columnRatios is falsy when it is None or empty.
ColumnSizesOf(ms, scaleToOne, scaleToFullMargin, columnRatios) ==
    IF Len(ms) = 0 THEN SizesErr("ValueError")
    ELSE IF columnRatios = <<>>
    THEN ScaledSizes(MatchWidths(ms), MatchFormats(ms), scaleToOne, scaleToFullMargin)
    ELSE IF Len(columnRatios) # Len(ms) THEN SizesErr("AssertionError")
    ELSE IF IntSum(columnRatios) = 0 THEN SizesErr("ZeroDivisionError")
    ELSE ScaledSizes(RatioWidths(columnRatios), MatchFormats(ms), TRUE,
                     scaleToFullMargin)

\* getColumnSizes after end = output.find(endTag)
ColumnSizesUpTo(output, end, scaleToOne, scaleToFullMargin, columnRatios) ==
    IF end < 0 THEN SizesOk(<<>>, <<>>)
    ELSE ColumnSizesOf(FindIter(Slice(output, 0, end), 0),
                       scaleToOne, scaleToFullMargin, columnRatios)

getColumnSizes(output, scaleToOne, scaleToFullMargin, columnRatios) ==
    ColumnSizesUpTo(output, Find(output, endhead),
                    scaleToOne, scaleToFullMargin, columnRatios)

(***************************************************************************)
(* setColumnFormat: widths and formats are accepted and not used.          *)
(***************************************************************************)
\* re.sub of a marker together with the rest of its line by "", from position
\* i on; m is the next match
RECURSIVE SubToLineEndAt(_, _, _, _)
SubToLineEndNext(s, pat, le) == SubToLineEndAt(s, pat, le, FindFrom(s, pat, le))
SubToLineEndAt(s, pat, i, m) ==
    IF m < 0 THEN SliceFrom(s, i)
    ELSE Slice(s, i, m) \o SubToLineEndNext(s, pat, LineEnd(s, m))
SubToLineEnd(s, pat) == SubToLineEndAt(s, pat, 0, Find(s, pat))

\* a setColumnFormat that writes the widths into the markup
setColumnFormatWritesWidths(output, widths, formats) ==
    SubToLineEnd(SubLiteral(output, endMinipage, <<>>), beginMinipage)
        \o [k \in 1..Len(widths) |-> ToString(widths[k])]

setColumnFormat(output, widths, formats) ==
    SubToLineEnd(SubLiteral(output, endMinipage, <<>>), beginMinipage)

(***************************************************************************)
(* deleteEmptyLines: at a line start, whitespace up to a newline is cut.    *)
(***************************************************************************)
\* end of the greedy match of whitespace-then-newline at the line start i,
\* -1 when there is none; stop is the first position at or after i that holds
\* no whitespace
BlankEndBefore(s, i, stop) ==
    MaxOr({j + 1 : j \in {j \in i..(stop - 1) : At(s, j) = "\n"}}, -1)
BlankEnd(s, i) ==
    BlankEndBefore(s, i, MinOr({j \in i..(Len(s) - 1) : ~IsSpace(At(s, j))}, Len(s)))

\* the first line start at or after i where the pattern matches, -1 when there
\* is none
NextBlank(s, i) ==
    MinOr({p \in i..(Len(s) - 1) :
             (p = 0 \/ At(s, p - 1) = "\n") /\ BlankEnd(s, p) >= 0}, -1)

RECURSIVE DeleteEmptyLinesAt(_, _, _)
DeleteEmptyLinesNext(s, e) == DeleteEmptyLinesAt(s, e, NextBlank(s, e))
DeleteEmptyLinesAt(s, i, m) ==
    IF m < 0 THEN SliceFrom(s, i)
    ELSE Slice(s, i, m) \o DeleteEmptyLinesNext(s, BlankEnd(s, m))

deleteEmptyLines(output) == DeleteEmptyLinesAt(output, 0, NextBlank(output, 0))

(***************************************************************************)
(* postProcessLatexTables                                                  *)
(***************************************************************************)
\* postProcessLatexTable from "spacing = config.get(...)" to the return
SpacingIfSet(table, spacing) ==
    IF spacing # <<>> THEN setLatexSpacing(table, spacing) ELSE table

\* postProcessLatexTable after getColumnSizes returned sizes or raised
PostProcessWithSizes(config, table, sizes) ==
    IF sizes.err # "" THEN TextErr(sizes.err)
    ELSE TextOk(deleteEmptyLines(
                    SpacingIfSet(setColumnFormat(table, sizes.widths, sizes.formats),
                                 config.rowSpacing)))

postProcessLatexTable(config, table) ==
    PostProcessWithSizes(config, table,
        getColumnSizes(table, config.scaleColumnsToFull,
                       config.scaleColumnsToFullMargin, config.columnRatios))

\* the end of the table regex's match that starts with the begin marker at i:
\* non-greedy and DOTALL, it runs to the next end marker (at e); -1 when there
\* is none
EndAfter(e, markerLen) == IF e < 0 THEN -1 ELSE e + markerLen

\* the end of a greedy match: it runs to the last end marker
TableEndGreedy(output, i) ==
    IF ~MatchAt(output, i, beginLongtable) THEN -1
    ELSE EndAfter(MaxOr({e \in (i + Len(beginLongtable))..Len(output) :
                           MatchAt(output, e, endLongtable)}, -1),
                  Len(endLongtable))

TableEnd(output, i) ==
    IF ~MatchAt(output, i, beginLongtable) THEN -1
    ELSE EndAfter(FindFrom(output, endLongtable, i + Len(beginLongtable)),
                  Len(endLongtable))

\* start of the first match of the table regex at or after pos, -1 when there
\* is none
NextTable(output, pos) ==
    MinOr({i \in pos..(Len(output) - 1) : TableEnd(output, i) >= 0}, -1)

\* r.sub(postProcessLatexTable, output) from position pos on: the text before
\* the next match, the match rewritten, and the rest; an exception of the
\* callback ends the substitution
RECURSIVE SubTablesFrom(_, _, _)
SubTablesJoin(before, block, rest) ==
    IF rest.err # "" THEN rest ELSE TextOk(before \o block.text \o rest.text)
SubTablesBlock(config, output, before, block, e) ==
    IF block.err # "" THEN block
    ELSE SubTablesJoin(before, block, SubTablesFrom(config, output, e))
SubTablesSpan(config, output, pos, i, e) ==
    SubTablesBlock(config, output, Slice(output, pos, i),
                   postProcessLatexTable(config, Slice(output, i, e)), e)
SubTablesAt(config, output, pos, i) ==
    IF i < 0 THEN TextOk(SliceFrom(output, pos))
    ELSE SubTablesSpan(config, output, pos, i, TableEnd(output, i))
SubTablesFrom(config, output, pos) ==
    SubTablesAt(config, output, pos, NextTable(output, pos))

postProcessLatexTables(config, output) == SubTablesFrom(config, output, 0)

(***************************************************************************)
(* Formats and extensions                                                  *)
(***************************************************************************)
Latex == <<"l", "a", "t", "e", "x">>
Html == <<"h", "t", "m", "l">>
Markdown == <<"m", "a", "r", "k", "d", "o", "w", "n">>
HtmlTexMath ==
    <<"h", "t", "m", "l", "+", "t", "e", "x", "_", "m", "a", "t", "h", "_",
      "d", "o", "l", "l", "a", "r", "s">>
Docx == <<"d", "o", "c", "x">>

\* pandocDefaults["from"], as defaults/pandoc-general.yaml is taken to set it
pandocDefaultsFrom == Markdown

FormatOk(f) == [err |-> "", format |-> f]
FormatErr == [err |-> "ValueError", format |-> <<>>]

\* a file is [base, ext], what os.path.splitext makes of its name
getFormat(file) ==
    IF file.ext = ".html" THEN FormatOk(HtmlTexMath)
    ELSE IF file.ext = ".tex" THEN FormatOk(Latex)
    ELSE IF file.ext = ".md" THEN FormatOk(pandocDefaultsFrom)
    ELSE FormatErr

getExtension(format) ==
    IF Find(format, Html) >= 0 THEN [err |-> "", ext |-> ".html"]
    ELSE IF Find(format, Latex) >= 0 THEN [err |-> "", ext |-> ".tex"]
    ELSE IF Find(format, Markdown) >= 0 THEN [err |-> "", ext |-> ".md"]
    ELSE [err |-> "ValueError", ext |-> ""]

(***************************************************************************)
(* defaultTableRegexes                                                     *)
(***************************************************************************)
\* re.sub of the non-greedy DOTALL span from open to the next close by repl
RECURSIVE SubSpanFrom(_, _, _, _, _)
SubSpanClose(s, open, close, repl, i, m, e) ==
    IF e < 0 THEN SliceFrom(s, i)
    ELSE Slice(s, i, m) \o repl \o SubSpanFrom(s, open, close, repl, e + Len(close))
SubSpanOpen(s, open, close, repl, i, m) ==
    IF m < 0 THEN SliceFrom(s, i)
    ELSE SubSpanClose(s, open, close, repl, i, m, FindFrom(s, close, m + Len(open)))
SubSpanFrom(s, open, close, repl, i) ==
    SubSpanOpen(s, open, close, repl, i, FindFrom(s, open, i))

\* the two rules of defaultTableRegexes["latex"], applied in order; no rule
\* for another format
defaultTableRegexes(toFormat, output) ==
    IF toFormat = Latex
    THEN SubSpanFrom(SubLiteral(output, endItemize \o strut, endItemize),
                     endfirsthead, endhead, endhead, 0)
    ELSE output

(***************************************************************************)
(* Inputs of the rewriter: converted text put together from the markers    *)
(* the rewriter looks for.                                                 *)
(***************************************************************************)
MaxItems == 3
MaxParts == 3

ColumnL2 == <<">", "{", "l", "}", "p", "{", "\\", "r", "e", "a", "l", "{", "2", "}", "}">>
ColumnC1 == <<">", "{", "c", "}", "p", "{", "\\", "r", "e", "a", "l", "{", "1", "}", "}">>
Newline == <<"\n">>

\* what may stand between the begin and the end marker of a table
BlockItems ==
    <<ColumnL2, ColumnC1 \o Newline, endhead, bottomrule, tabularnewline,
      beginMinipage, endMinipage, Newline, <<" ">>>>

\* a three-column table laid out as the engine lays it out: one column
\* declaration per line, cells wrapped in minipages, a blank line before the
\* footer
PandocTable ==
    beginLongtable \o Newline
        \o ColumnL2 \o Newline \o ColumnC1 \o Newline \o ColumnC1 \o Newline
        \o endhead \o Newline
        \o beginMinipage \o <<"[", "t", "]">> \o Newline
        \o <<"x">> \o endMinipage \o <<"&", "y">> \o tabularnewline \o Newline
        \o <<"z", "&", "w">> \o tabularnewline \o Newline \o Newline
        \o bottomrule \o Newline
        \o endLongtable

\* a table whose only content is wrapper markup and blank lines
WrapperTable ==
    beginLongtable \o endMinipage \o Newline \o Newline \o endLongtable

\* a table with a header-end marker and no column declaration
HeaderOnlyTable == beginLongtable \o endhead \o endLongtable

\* what a document is put together from
DocParts ==
    <<beginLongtable, endLongtable, <<"x">>, Newline \o Newline,
      WrapperTable, HeaderOnlyTable>>

RECURSIVE Concat(_, _)
Concat(pieces, idx) ==
    IF idx = <<>> THEN <<>> ELSE pieces[idx[1]] \o Concat(pieces, Tail(idx))

Words(pieces, n) ==
    {Concat(pieces, idx) : idx \in UNION {[1..k -> 1..Len(pieces)] : k \in 0..n}}

Blocks ==
    {beginLongtable \o w \o endLongtable : w \in Words(BlockItems, MaxItems)}
        \cup {PandocTable}
Docs == Words(DocParts, MaxParts) \cup {<<"x">> \o PandocTable \o Newline \o PandocTable}

Spacings == {<<>>, <<"2", "p", "t">>}

\* config.get(key, default): an absent key is the field holding the default
\* (False, 0.0, None, None); None and the empty list or string are <<>>
Config(scale, margin, ratios, spacing) ==
    [scaleColumnsToFull |-> scale, scaleColumnsToFullMargin |-> margin,
     columnRatios |-> ratios, rowSpacing |-> spacing]

Configs ==
    {Config(o[1], o[2], o[3], sp) :
        o \in {<<FALSE, <<0, 1>>, <<>>>>,
               <<TRUE, <<0, 1>>, <<>>>>,
               <<TRUE, <<1, 10>>, <<>>>>,
               <<FALSE, <<0, 1>>, <<3, 3, 2>>>>,
               <<FALSE, <<1, 10>>, <<1, 1>>>>,
               <<TRUE, <<0, 1>>, <<0, 0>>>>},
        sp \in Spacings}

DocConfigs ==
    {Config(scale, <<0, 1>>, <<>>, sp) : scale \in BOOLEAN, sp \in Spacings}

VARIABLES
    text,          \* the converted text: the rewriter's input, the engine's output
    config,        \* the config the rewriter reads: a job's configuration group
    called,        \* the rewriter function applied to text, "none" before
    arg,           \* the argument it was applied to
    ret,           \* what it returned or raised
    argsParallel,  \* args.parallel
    configs,       \* the loaded configuration: the groups of the run
    pc,            \* where the run is
    gi,            \* run: number of the group convertTables was last called with
    files,         \* convertTables: files
    fi,            \* convertTables: number of the file convertTable was last called with
    outFile,       \* convertTable: outFile
    output,        \* convertTable: output
    disk,          \* the destination files and what they hold
    started,       \* history: the jobs started, in order
    finished,      \* history: how many jobs returned
    written,       \* history: what the current job wrote to outFile, in order
    raised         \* the exception that ended the run and where it was raised

rewriterVars == <<text, config, called, arg, ret>>
runVars ==
    <<argsParallel, configs, pc, gi, files, fi, outFile, output, disk, started,
      finished, written, raised>>

Ret(e, t, ws, fs) == [err |-> e, text |-> t, widths |-> ws, formats |-> fs]
NoRet == Ret("", <<>>, <<>>, <<>>)
ReturnedText(r) == Ret(r.err, r.text, <<>>, <<>>)
ReturnedSizes(r) == Ret(r.err, <<>>, r.widths, r.formats)

\* the text is one match of the table regex
IsTable(t) == TableEnd(t, 0) = Len(t)

NoFile == <<"no file">>
NotRaised == [at |-> "", err |-> ""]

\* no run is under way
RunIdle ==
    /\ argsParallel = FALSE
    /\ configs = <<>>
    /\ pc = "idle"
    /\ gi = 0
    /\ files = <<>>
    /\ fi = 0
    /\ outFile = NoFile
    /\ output = <<>>
    /\ disk = [f \in {} |-> <<>>]
    /\ started = <<>>
    /\ finished = 0
    /\ written = <<>>
    /\ raised = NotRaised

InitRewriter ==
    /\ \/ text \in Blocks /\ config \in Configs
       \/ text \in Docs /\ config \in DocConfigs
    /\ called = "none"
    /\ arg = <<>>
    /\ ret = NoRet
    /\ RunIdle

\* postProcessLatexTables(config, text)
CallPostProcessLatexTables ==
    /\ called = "none"
    /\ called' = "postProcessLatexTables"
    /\ arg' = text
    /\ ret' = ReturnedText(postProcessLatexTables(config, text))
    /\ UNCHANGED <<text, config>>
    /\ UNCHANGED runVars

\* postProcessLatexTable(match), called by r.sub with each match
CallPostProcessLatexTable ==
    /\ called = "none"
    /\ IsTable(text)
    /\ called' = "postProcessLatexTable"
    /\ arg' = text
    /\ ret' = ReturnedText(postProcessLatexTable(config, text))
    /\ UNCHANGED <<text, config>>
    /\ UNCHANGED runVars

\* getColumnSizes(table, ...), called by postProcessLatexTable with the match
CallGetColumnSizes ==
    /\ called = "none"
    /\ IsTable(text)
    /\ called' = "getColumnSizes"
    /\ arg' = text
    /\ ret' = ReturnedSizes(
                  getColumnSizes(text, config.scaleColumnsToFull,
                                 config.scaleColumnsToFullMargin, config.columnRatios))
    /\ UNCHANGED <<text, config>>
    /\ UNCHANGED runVars

\* setLatexSpacing(table, spacing), called by postProcessLatexTable with the
\* table setColumnFormat returned, when getColumnSizes did not raise and
\* rowSpacing is set
SetLatexSpacingOf(table) ==
    /\ arg' = table
    /\ ret' = Ret("", setLatexSpacing(table, config.rowSpacing), <<>>, <<>>)
SetLatexSpacingAfter(sizes) ==
    /\ sizes.err = ""
    /\ SetLatexSpacingOf(setColumnFormat(text, sizes.widths, sizes.formats))
CallSetLatexSpacing ==
    /\ called = "none"
    /\ IsTable(text)
    /\ config.rowSpacing # <<>>
    /\ SetLatexSpacingAfter(
           getColumnSizes(text, config.scaleColumnsToFull,
                          config.scaleColumnsToFullMargin, config.columnRatios))
    /\ called' = "setLatexSpacing"
    /\ UNCHANGED <<text, config>>
    /\ UNCHANGED runVars

NextRewriter ==
    \/ CallPostProcessLatexTables
    \/ CallPostProcessLatexTable
    \/ CallGetColumnSizes
    \/ CallSetLatexSpacing

vars == <<rewriterVars, runVars>>

SpecRewriter == InitRewriter /\ [][NextRewriter]_vars

(***************************************************************************)
(* Properties of the rewriter                                              *)
(***************************************************************************)
\* The table blocks of t, stated without the scan: a block starts at a begin
\* marker that has an end marker after it and lies in no earlier block, and
\* ends with the first end marker after its begin marker.
BlockEnd(t, i) ==
    Min({e \in (i + Len(beginLongtable))..Len(t) : MatchAt(t, e, endLongtable)})
        + Len(endLongtable)
BlockCandidates(t) ==
    {i \in 0..Len(t) :
        /\ MatchAt(t, i, beginLongtable)
        /\ \E e \in (i + Len(beginLongtable))..Len(t) : MatchAt(t, e, endLongtable)}
BlockStarts(t) ==
    {i \in BlockCandidates(t) :
        ~\E i2 \in BlockCandidates(t) : i2 < i /\ i < BlockEnd(t, i2)}

\* t from pos on, with the blocks that start in starts replaced by their
\* rewritten form
RECURSIVE WithBlocksRewritten(_, _, _, _)
WithBlocksRewritten(cfg, t, pos, starts) ==
    IF starts = {} THEN SliceFrom(t, pos)
    ELSE LET i == Min(starts)
         IN  Slice(t, pos, i)
                 \o postProcessLatexTable(cfg, Slice(t, i, BlockEnd(t, i))).text
                 \o WithBlocksRewritten(cfg, t, BlockEnd(t, i), starts \ {i})

\* C1: when postProcessLatexTables returns, the returned text is the input with
\* each table block (leftmost, non-overlapping, from a begin marker to the next
\* end marker) replaced by its rewritten form, in order, and everything outside
\* the blocks unchanged and in place.
C1_OutsideUnchanged ==
    (called = "postProcessLatexTables" /\ ret.err = "")
        => ret.text = WithBlocksRewritten(config, arg, 0, BlockStarts(arg))

\* C1 witness: two blocks, text before the first one, and a block that changed
C1_Witness ==
    /\ called = "postProcessLatexTables"
    /\ ret.err = ""
    /\ Cardinality(BlockStarts(arg)) >= 2
    /\ 0 \notin BlockStarts(arg)
    /\ ret.text # arg

\* the header region of a block: the text before the first header-end marker
HasHeaderEnd(t) == Find(t, endhead) >= 0
HeaderRegion(t) == Slice(t, 0, Find(t, endhead))

\* C2 as claimed: getColumnSizes never returns an empty width sequence as a
\* successful result, whatever the block (also without a header-end marker).
C2_NeverEmpty ==
    (called = "getColumnSizes" /\ ret.err = "") => Len(ret.widths) > 0

\* C2 as amended: for a block that has the header-end marker, a successful
\* return carries at least one (width, format) pair and a block without a column
\* match fails; a block without the header-end marker returns the empty
\* sequences successfully.
C2_NonEmptyWithHeaderEnd ==
    /\ (called = "getColumnSizes" /\ ret.err = "" /\ HasHeaderEnd(arg))
          => (Len(ret.widths) > 0 /\ Len(ret.formats) = Len(ret.widths))
    /\ (called = "getColumnSizes" /\ HasHeaderEnd(arg)
          /\ FindIter(HeaderRegion(arg), 0) = <<>>)
          => ret.err = "ValueError"
    /\ (called = "postProcessLatexTable" /\ ret.err = "" /\ HasHeaderEnd(arg))
          => FindIter(HeaderRegion(arg), 0) # <<>>
    /\ (called = "getColumnSizes" /\ ~HasHeaderEnd(arg))
          => (ret.err = "" /\ ret.widths = <<>> /\ ret.formats = <<>>)

\* C2 witness: a block with a header-end marker returned two pairs
C2_Witness ==
    /\ called = "getColumnSizes"
    /\ ret.err = ""
    /\ HasHeaderEnd(arg)
    /\ Len(ret.widths) = 2

\* number of widths the column regex extracts from a block
ExtractedCount(t) ==
    IF HasHeaderEnd(t) THEN Len(FindIter(HeaderRegion(t), 0)) ELSE 0

\* C3: with column ratios configured, a table block is rewritten without
\* failure only if the number of ratios equals the number of widths extracted
\* from it (zero for a block without a header-end marker).
C3_RatioCountChecked ==
    (called = "postProcessLatexTable" /\ config.columnRatios # <<>> /\ ret.err = "")
        => Len(config.columnRatios) = ExtractedCount(arg)

\* a line of t that is empty or holds whitespace only
HasBlankLine(t) ==
    \E p \in 0..(Len(t) - 1) :
        /\ p = 0 \/ At(t, p - 1) = "\n"
        /\ \A q \in p..(LineEnd(t, p) - 1) : IsSpace(At(t, q))

\* C4: no rewritten table block contains the begin-minipage marker, the
\* end-minipage marker, or a line that is empty or whitespace-only.
C4_NoWrapperNoBlankLine ==
    (called = "postProcessLatexTable" /\ ret.err = "")
        => /\ Find(ret.text, beginMinipage) < 0
           /\ Find(ret.text, endMinipage) < 0
           /\ ~HasBlankLine(ret.text)

\* C5: with n >= 1 extracted widths w and margin m: with ratios r configured
\* width i is (1 - m) * r_i / sum(r); else with scaleColumnsToFull it is
\* (1 - m) * w_i / sum(w); in both cases the widths sum to 1 - m; with neither
\* option the widths are returned as extracted.  Ratios [3,3,2] with m = 0 give
\* [3/8, 3/8, 1/4]; widths [1,1] scaled with m = 1/10 give [9/20, 9/20].
C5_Widths ==
    (called = "getColumnSizes" /\ ret.err = "")
        => LET w == IF HasHeaderEnd(arg) THEN MatchWidths(FindIter(HeaderRegion(arg), 0))
                    ELSE <<>>
               r == config.columnRatios
               m == config.scaleColumnsToFullMargin
               rest == RSub(ROne, m)
           IN  IF w = <<>> THEN ret.widths = <<>>
               ELSE IF r # <<>>
                    THEN /\ Len(ret.widths) = Len(r)
                         /\ Len(r) = Len(w)
                         /\ \A i \in 1..Len(r) :
                               ret.widths[i] =
                                   RDiv(RMul(rest, <<r[i], 1>>), <<IntSum(r), 1>>)
                         /\ RSum(ret.widths) = rest
                         /\ (r = <<3, 3, 2>> /\ m = RZero)
                               => ret.widths = <<<<3, 8>>, <<3, 8>>, <<1, 4>>>>
               ELSE IF config.scaleColumnsToFull
                    THEN /\ Len(ret.widths) = Len(w)
                         /\ \A i \in 1..Len(w) :
                               ret.widths[i] = RDiv(RMul(rest, w[i]), RSum(w))
                         /\ RSum(ret.widths) = rest
                         /\ (w = <<ROne, ROne>> /\ m = <<1, 10>>)
                               => ret.widths = <<<<9, 20>>, <<9, 20>>>>
               ELSE ret.widths = w

\* C5 witness: ratios [3,3,2] against the declared widths [2,1,1]
C5_Witness ==
    /\ called = "getColumnSizes"
    /\ ret.err = ""
    /\ config.columnRatios = <<3, 3, 2>>
    /\ MatchWidths(FindIter(HeaderRegion(arg), 0)) = <<<<2, 1>>, <<1, 1>>, <<1, 1>>>>
    /\ ret.widths = <<<<3, 8>>, <<3, 8>>, <<1, 4>>>>

\* the width declarations of a header region, one for each "\real{number}}"
\* in it, from left to right
RECURSIVE DeclaredFrom(_, _)
DeclaredFrom(h, pos) ==
    LET rs == {r \in pos..(Len(h) - 1) : RealEnd(h, r) >= 0}
    IN  IF rs = {} THEN <<>>
        ELSE <<Float(Slice(h, Min(rs) + Len(real), RealEnd(h, Min(rs)) - 2))>>
                 \o DeclaredFrom(h, RealEnd(h, Min(rs)))
DeclaredWidths(t) == IF HasHeaderEnd(t) THEN DeclaredFrom(HeaderRegion(t), 0) ELSE <<>>

\* C6: with no overrides getColumnSizes returns one pair for each column width
\* declaration of the header region, in declaration order, however the
\* declarations are spread over lines.
C6_OnePairPerDeclaration ==
    (called = "getColumnSizes" /\ ret.err = "" /\ config.columnRatios = <<>>
        /\ ~config.scaleColumnsToFull)
        => /\ ret.widths = DeclaredWidths(arg)
           /\ Len(ret.formats) = Len(ret.widths)

\* C7: the returned text does not depend on the width options: whenever the
\* rewriter succeeds, it succeeds with scaleColumnsToFull, the margin and
\* columnRatios left out as well, and returns the same text; so any two option
\* sets that differ in the width options only return the same text.
C7_TextIndependentOfWidthOptions ==
    (called = "postProcessLatexTables" /\ ret.err = "")
        => LET plain == postProcessLatexTables(
                            Config(FALSE, RZero, <<>>, config.rowSpacing), arg)
           IN  plain.err = "" /\ plain.text = ret.text

\* C7 witness: a table with declared widths [2,1,1] rewritten under ratios
C7_Witness ==
    /\ called = "postProcessLatexTables"
    /\ ret.err = ""
    /\ config.columnRatios = <<3, 3, 2>>
    /\ arg = PandocTable
    /\ ret.text # arg

\* the directive the claim speaks of, for a spacing value
SpacingDirective(spacing) == addlinespace \o <<"[">> \o spacing \o <<"]">>

\* C10: setLatexSpacing duplicates and drops nothing (the result without the
\* inserted directives is the input), and with the footer marker after the
\* header-end marker it returns the input with a directive after each
\* row-separator marker of the body region and nothing else changed.
C10_SpacingOnlyInBody ==
    called = "setLatexSpacing"
        => LET h == Find(arg, endhead)
               f == Find(arg, bottomrule)
               d == SpacingDirective(config.rowSpacing)
           IN  /\ SubLiteral(ret.text, d, <<>>) = arg
               /\ (h >= 0 /\ f >= h + Len(endhead))
                     => ret.text =
                            Slice(arg, 0, h + Len(endhead))
                                \o SubLiteral(Slice(arg, h + Len(endhead), f),
                                              tabularnewline, tabularnewline \o d)
                                \o SliceFrom(arg, f)

(***************************************************************************)
(* The command-line run                                                    *)
(***************************************************************************)
MaxGroups == 2

File(base, ext) == [base |-> base, ext |-> ext]

\* glob.glob(g.format(rootDir=rootDir), recursive=True) on the file system
\* of the run
Glob(g) ==
    IF g = "**/*.md" THEN <<File("a", ".md"), File("b", ".md")>>
    ELSE IF g = "**/a.*" THEN <<File("a", ".md"), File("a", ".tex")>>
    ELSE IF g = "**/*.txt" THEN <<File("n", ".txt")>>
    ELSE <<>>

\* globs is [isStr, value]: a string, or a list of strings
GlobList(globs) == IF globs.isStr THEN <<globs.value>> ELSE globs.value

\* a file list in which a file matched by an earlier pattern is left out
RECURSIVE GlobFilesUnique(_)
GlobFilesUnique(gs) ==
    IF gs = <<>> THEN <<>>
    ELSE LET before == GlobFilesUnique(SubSeq(gs, 1, Len(gs) - 1))
         IN  before \o SelectSeq(Glob(gs[Len(gs)]),
                                 LAMBDA f : \A k \in 1..Len(before) : before[k] # f)

\* files += glob.glob(g) for g in globs
RECURSIVE GlobFiles(_)
GlobFiles(gs) == IF gs = <<>> THEN <<>> ELSE Glob(gs[1]) \o GlobFiles(Tail(gs))

Group(globs, from, to, defaults, ratios, spacing) ==
    [globs |-> globs, from |-> from, to |-> to, outputDir |-> "out",
     defaultPostProcessing |-> defaults, scaleColumnsToFull |-> FALSE,
     scaleColumnsToFullMargin |-> RZero, columnRatios |-> ratios,
     rowSpacing |-> spacing]

\* the configuration groups a config file is put together from; an absent
\* "from" key is <<>>
Groups ==
    {Group([isStr |-> FALSE, value |-> <<"**/*.md", "**/a.*">>], <<>>, Latex,
           TRUE, <<>>, <<"2", "p", "t">>),
     Group([isStr |-> TRUE, value |-> "**/a.*"], Markdown, Html, TRUE, <<>>, <<>>),
     Group([isStr |-> FALSE, value |-> <<"**/*.md", "**/*.txt">>], <<>>, Latex,
           TRUE, <<3, 3, 2>>, <<>>),
     Group([isStr |-> TRUE, value |-> "**/*.md"], <<>>, Docx, FALSE, <<>>, <<>>),
     Group([isStr |-> TRUE, value |-> "**/*.md"], <<>>, Latex, FALSE, <<>>, <<>>)}

\* a table with a first-header block and a list in a cell
FirstHeadTable ==
    beginLongtable \o Newline \o ColumnL2 \o Newline
        \o <<"h">> \o endfirsthead \o Newline \o <<"h">> \o endhead \o Newline
        \o endItemize \o strut \o tabularnewline \o Newline
        \o bottomrule \o Newline \o endLongtable

\* what the engine may print
EngineOutputs == {<<"x">>, PandocTable, HeaderOnlyTable, FirstHeadTable}

Init ==
    /\ argsParallel \in BOOLEAN
    /\ configs \in UNION {[1..n -> Groups] : n \in 0..MaxGroups}
    /\ pc = "main"
    /\ gi = 0
    /\ files = <<>>
    /\ fi = 0
    /\ outFile = NoFile
    /\ output = <<>>
    /\ disk = [f \in {} |-> <<>>]
    /\ started = <<>>
    /\ finished = 0
    /\ written = <<>>
    /\ raised = NotRaised
    /\ text = <<>>
    /\ config = <<>>
    /\ called = "none"
    /\ arg = <<>>
    /\ ret = NoRet

Raise(at, err) ==
    /\ pc' = "failed"
    /\ raised' = [at |-> at, err |-> err]

\* __main__: run(config, ..., parallel=False), whatever args.parallel is; run
\* then takes its sequential branch
Main ==
    /\ pc = "main"
    /\ pc' = "run"
    /\ UNCHANGED <<text, config, called, arg, ret, argsParallel, configs, gi, files,
                   fi, outFile, output, disk, started, finished, written, raised>>

\* run: for c in configs: convertTables(c, ...), up to the loop over the files
ConvertTables ==
    /\ pc = "run"
    /\ gi < Len(configs)
    /\ gi' = gi + 1
    /\ config' = configs[gi + 1]
    /\ files' = GlobFiles(GlobList(configs[gi + 1].globs))
    /\ fi' = 0
    /\ pc' = "convertTables"
    /\ UNCHANGED <<text, called, arg, ret, argsParallel, configs, outFile, output,
                   disk, started, finished, written, raised>>

\* run: the loop over the groups is over
RunReturns ==
    /\ pc = "run"
    /\ gi = Len(configs)
    /\ pc' = "done"
    /\ UNCHANGED <<text, config, called, arg, ret, argsParallel, configs, gi, files,
                   fi, outFile, output, disk, started, finished, written, raised>>

\* convertTables: for f in files: convertTable(f, ...), up to the engine call
ConvertTable ==
    /\ pc = "convertTables"
    /\ fi < Len(files)
    /\ fi' = fi + 1
    /\ started' = Append(started, <<gi, files[fi + 1]>>)
    /\ written' = <<>>
    /\ LET file == files[fi + 1]
           fromFormat == IF config.from # <<>> THEN FormatOk(config.from)
                         ELSE getFormat(file)
           toExt == getExtension(config.to)
       IN  IF fromFormat.err # ""
           THEN Raise("getFormat", fromFormat.err) /\ UNCHANGED outFile
           ELSE IF toExt.err # ""
           THEN Raise("getExtension", toExt.err) /\ UNCHANGED outFile
           ELSE /\ outFile' = <<config.outputDir, file.base, toExt.ext>>
                /\ pc' = "pandoc"
                /\ UNCHANGED raised
    /\ UNCHANGED <<text, config, called, arg, ret, argsParallel, configs, gi, files,
                   output, disk, finished>>

\* convertTables: the loop over the files is over
ConvertTablesReturns ==
    /\ pc = "convertTables"
    /\ fi = Len(files)
    /\ pc' = "run"
    /\ UNCHANGED <<text, config, called, arg, ret, argsParallel, configs, gi, files,
                   fi, outFile, output, disk, started, finished, written, raised>>

\* subprocess.check_output returns the engine's output
Pandoc ==
    /\ pc = "pandoc"
    /\ \E out \in EngineOutputs :
          /\ text' = out
          /\ output' = out
    /\ pc' = "presave"
    /\ UNCHANGED <<config, called, arg, ret, argsParallel, configs, gi, files, fi,
                   outFile, disk, started, finished, written, raised>>

\* subprocess.check_output raises: a non-zero exit, a warning
PandocFails ==
    /\ pc = "pandoc"
    /\ Raise("pandoc", "CalledProcessError")
    /\ UNCHANGED <<text, config, called, arg, ret, argsParallel, configs, gi, files,
                   fi, outFile, output, disk, started, finished, written>>

\* a convertTable without its pre-save
PreSaveSkipped ==
    /\ pc = "presave"
    /\ pc' = "postprocess"
    /\ UNCHANGED <<text, config, called, arg, ret, argsParallel, configs, gi, files,
                   fi, outFile, output, disk, started, finished, written, raised>>

\* convertTable: "Pre save"
PreSave ==
    /\ pc = "presave"
    /\ disk' = (outFile :> output) @@ disk
    /\ written' = Append(written, output)
    /\ pc' = "postprocess"
    /\ UNCHANGED <<text, config, called, arg, ret, argsParallel, configs, gi, files,
                   fi, outFile, output, started, finished, raised>>

\* convertTable from "Modify regexes" to the final write: what output becomes
LatexPostProcessing(cfg, out) ==
    IF cfg.to = Latex THEN postProcessLatexTables(cfg, out) ELSE TextOk(out)
PostProcessing(cfg, out) ==
    LatexPostProcessing(cfg,
        IF cfg.defaultPostProcessing THEN defaultTableRegexes(cfg.to, out) ELSE out)

PostProcessed(r) ==
    IF r.err # ""
    THEN Raise("postProcessLatexTables", r.err) /\ UNCHANGED output
    ELSE /\ output' = r.text
         /\ pc' = "save"
         /\ UNCHANGED raised

\* convertTable: the default regexes and the LaTeX rewriter
PostProcess ==
    /\ pc = "postprocess"
    /\ PostProcessed(PostProcessing(config, output))
    /\ UNCHANGED <<text, config, called, arg, ret, argsParallel, configs, gi, files,
                   fi, outFile, disk, started, finished, written>>

\* convertTable: the final write, and the return
Save ==
    /\ pc = "save"
    /\ disk' = (outFile :> output) @@ disk
    /\ written' = Append(written, output)
    /\ finished' = finished + 1
    /\ pc' = "convertTables"
    /\ UNCHANGED <<text, config, called, arg, ret, argsParallel, configs, gi, files,
                   fi, outFile, output, started, raised>>

Next ==
    \/ Main
    \/ ConvertTables
    \/ RunReturns
    \/ ConvertTable
    \/ ConvertTablesReturns
    \/ Pandoc
    \/ PandocFails
    \/ PreSave
    \/ PostProcess
    \/ Save

Spec == Init /\ [][Next]_vars

(***************************************************************************)
(* Properties of the command-line run                                      *)
(***************************************************************************)
IsPrefix(a, b) == Len(a) <= Len(b) /\ SubSeq(b, 1, Len(a)) = a

\* what post-processing makes of the engine output raw under the group cfg
Expected(cfg, raw) ==
    LET regexed == IF cfg.defaultPostProcessing /\ cfg.to = Latex
                   THEN SubSpanFrom(SubLiteral(raw, endItemize \o strut, endItemize),
                                    endfirsthead, endhead, endhead, 0)
                   ELSE raw
    IN  IF cfg.to = Latex THEN postProcessLatexTables(cfg, regexed) ELSE TextOk(regexed)

\* the configuration group of the job started last
JobConfig == configs[started[Len(started)][1]]

\* the job failed before the engine returned its output
FailedBeforeOutput ==
    pc = "failed" /\ raised.at \in {"getFormat", "getExtension", "pandoc"}

\* the job failed in post-processing
FailedInPostProcessing == pc = "failed" /\ raised.at = "postProcessLatexTables"

\* C8: within one job the destination is written in a fixed sequence.  A job
\* whose engine call fails writes nothing.  Otherwise the raw engine output is
\* written first; the post-processed text is written second, and only when
\* the default regexes and the LaTeX rewriter finish without failure; when
\* post-processing fails, the job has written the raw output only and the
\* destination holds exactly the raw output.
C8_WriteSequence ==
    /\ Len(written) <= 2
    /\ (pc = "pandoc" \/ pc = "presave" \/ FailedBeforeOutput) => written = <<>>
    /\ Len(written) >= 1 => written[1] = text
    /\ pc \in {"postprocess", "save"}
          => written = <<text>> /\ disk[outFile] = text
    /\ Len(written) = 2
          => /\ Expected(JobConfig, text).err = ""
             /\ written[2] = Expected(JobConfig, text).text
             /\ disk[outFile] = written[2]
    /\ FailedInPostProcessing
          => /\ Expected(JobConfig, text).err # ""
             /\ written = <<text>>
             /\ disk[outFile] = text

\* a job whose rewriter failed on a text the default regexes had changed: the
\* destination holds the raw output
C8_Witness ==
    /\ FailedInPostProcessing
    /\ JobConfig.defaultPostProcessing
    /\ text = FirstHeadTable
    /\ written = <<text>>
    /\ disk[outFile] = text

\* the files of the patterns ps, pattern by pattern
RECURSIVE PatternFiles(_)
PatternFiles(ps) ==
    IF ps = <<>> THEN <<>>
    ELSE PatternFiles(SubSeq(ps, 1, Len(ps) - 1)) \o Glob(ps[Len(ps)])

\* the jobs of group g of the configuration cs: one per file of its patterns
GroupJobs(cs, g) ==
    LET fs == IF cs[g].globs.isStr THEN Glob(cs[g].globs.value)
              ELSE PatternFiles(cs[g].globs.value)
    IN  [k \in 1..Len(fs) |-> <<g, fs[k]>>]

\* the jobs of the first n groups of cs, in configuration order
RECURSIVE JobsUpTo(_, _)
JobsUpTo(cs, n) == IF n = 0 THEN <<>> ELSE JobsUpTo(cs, n - 1) \o GroupJobs(cs, n)

JobList == JobsUpTo(configs, Len(configs))

JobsInOrder ==
    /\ IsPrefix(started, JobList)
    /\ finished <= Len(started)
    /\ Len(started) <= finished + 1
    /\ pc = "failed" => finished = Len(started) - 1
    /\ pc = "done" => started = JobList /\ finished = Len(JobList)

\* a step of the run: none after a failure, and a job starts only when every
\* job started before it has finished
JobStep ==
    /\ pc # "failed"
    /\ IsPrefix(started, started')
    /\ Len(started') <= Len(started) + 1
    /\ Len(started') > Len(started) => finished = Len(started)

\* C9: whatever the parallel flag of the command line, the jobs run one at a
\* time, groups in configuration order and files in pattern order with
\* duplicates kept; the jobs started are a prefix of that list, which ends at
\* the first failing job: after a failure nothing more is started and nothing
\* is started twice.
C9_SequentialPrefix == [](JobsInOrder) /\ [][JobStep]_vars

\* a run with the parallel flag set whose third job, a file matched a second
\* time, failed while a further job was waiting
C9_Witness ==
    /\ argsParallel
    /\ pc = "failed"
    /\ Len(started) = 3
    /\ started[3] = started[1]
    /\ Len(started) < Len(JobList)

====
